---- MODULE Spec2Model ----
(***************************************************************************)
(* Model of the waveshare barcode scanner driver: the checksum engine      *)
(* (src/src/crc.rs), the command/reply frame codec and the request/reply   *)
(* engine, and the scan payload decoder (src/src/interface.rs), together   *)
(* with the serial transport and the device on the other end of the line.  *)
(* Bytes are the integers 0..255, byte strings are sequences of bytes.     *)
(***************************************************************************)
EXTENDS Integers, Sequences, FiniteSets, TLC

(***************************************************************************)
(* Bounds of the model.                                                    *)
(***************************************************************************)
\* commands issued on one session after it was created
MaxCmds == 2
\* destination and payload lengths 1..MaxSmallLen are enumerated next to the
\* boundary lengths 255 and 256
MaxSmallLen == 2

(***************************************************************************)
(* Program constants.                                                      *)
(***************************************************************************)
IGNORED_CHECKSUM == 43981
CRC_POLYNOMIAL == 4129
START_MARKER == 126
REPLY_HEADER == 2
FUNCTION_READ == 7
FUNCTION_WRITE == 8
ENVELOPE_LEN == 6
SENTINEL_LEN == 256
POLL_MS == 100
DEFAULT_SCAN_TIMEOUT_MS == 5000
MAX_SCAN_TIMEOUT_MS == 25500
DECODING_OPTIONS_ADDRESS == 96
DECODING_OPTIONS == 5
SCAN_TIMEOUT_ADDRESS == 6
LINE_FEED == 10
CARRIAGE_RETURN == 13

(***************************************************************************)
(* Bytes and byte strings.                                                 *)
(***************************************************************************)

Fill(n, b) == [i \in 1..n |-> b]

\* u16::to_be_bytes
to_be_bytes(v) == <<v \div 256, v % 256>>

\* bit k of v
Bit(v, k) == (v \div (2 ^ k)) % 2

\* v with bit k inverted
FlipBit(v, k) == IF Bit(v, k) = 1 THEN v - (2 ^ k) ELSE v + (2 ^ k)

\* bitwise exclusive or of two 4-bit values, bit by bit
XorNibble(a, b) ==
      ((Bit(a, 0) + Bit(b, 0)) % 2)
    + (((Bit(a, 1) + Bit(b, 1)) % 2) * 2)
    + (((Bit(a, 2) + Bit(b, 2)) % 2) * 4)
    + (((Bit(a, 3) + Bit(b, 3)) % 2) * 8)

\* the table of XorNibble, entry (16 * a) + b + 1
XorTable == <<>> \o [i \in 1..256 |-> XorNibble((i - 1) \div 16, (i - 1) % 16)]

\* bitwise exclusive or of two bytes
Xor8(a, b) ==
    (XorTable[(16 * (a \div 16)) + (b \div 16) + 1] * 16)
    + XorTable[(16 * (a % 16)) + (b % 16) + 1]

\* bitwise exclusive or of two 16-bit words
Xor16(a, b) ==
    (Xor8(a \div 256, b \div 256) * 256) + Xor8(a % 256, b % 256)

(***************************************************************************)
(* Checksum engine: CRC-16, polynomial 0x1021, initial value 0, final xor  *)
(* 0, not reflected (CRC::create_crc_u16(0x1021, 16, 0, 0, false)).        *)
(***************************************************************************)
\* one bit of the register: shift left, and xor the polynomial in when the
\* bit shifted out was set
CrcShift(reg) ==
    IF reg >= 32768
    THEN Xor16((reg * 2) % 65536, CRC_POLYNOMIAL)
    ELSE reg * 2

\* the register after eight shifts, starting from byte b in its high half
CrcOfByte(b) ==
    CrcShift(CrcShift(CrcShift(CrcShift(
    CrcShift(CrcShift(CrcShift(CrcShift(b * 256))))))))

\* the byte-wise lookup table of the register update
CrcTable == <<>> \o [i \in 1..256 |-> CrcOfByte(i - 1)]

\* digest of one byte, most significant bit first
CrcByte(reg, b) ==
    LET entry == CrcTable[Xor8(reg \div 256, b) + 1]
    IN  (Xor8(reg % 256, entry \div 256) * 256) + (entry % 256)

\* digest of data[lo..hi] into the register reg
RECURSIVE CrcRange(_, _, _, _)
CrcRange(data, lo, hi, reg) ==
    IF lo > hi THEN reg
    ELSE IF lo = hi THEN CrcByte(reg, data[lo])
    ELSE LET mid == (lo + hi) \div 2
             left == CrcRange(data, lo, mid, reg)
         IN  IF left >= 0 THEN CrcRange(data, mid + 1, hi, left) ELSE 0

\* the checksum with the register starting at 0x1D0F instead of 0
calculate_crc_init_1d0f(data) == CrcRange(data, 1, Len(data), 7439)

\* the checksum with the register starting at 0xFFFF instead of 0
calculate_crc_init_ffff(data) == CrcRange(data, 1, Len(data), 65535)

\* the checksum of data: the register starts at 0 and takes the bytes in
\* order; nothing is reflected, nothing is xored in at the end
calculate_crc(data) == CrcRange(data, 1, Len(data), 0)

\* the verification without the test for IGNORED_CHECKSUM
verify_crc_always(data, expected_checksum) ==
    expected_checksum = calculate_crc(data)

\* TRUE is Ok(()), FALSE the checksum error
verify_crc(data, expected_checksum) ==
    IF expected_checksum = IGNORED_CHECKSUM
    THEN TRUE
    ELSE expected_checksum = calculate_crc(data)

(***************************************************************************)
(* Frame codec.  An Option is a sequence: <<>> is None, <<v>> is Some(v).  *)
(***************************************************************************)
\* usize -> u8 by try_into: Ok for the values a byte holds
FitsU8(v) == v >= 0 /\ v <= 255

\* send_to_serial with the checksum taken over the whole buffer, start
\* marker and reserved byte included
send_to_serial_crc_from_start(function_type, length, address, return_data_length, write_data) ==
    LET head == <<START_MARKER, 0, function_type, length>> \o to_be_bytes(address)
        reply_length ==
            IF return_data_length = <<>> THEN <<>>
            ELSE IF return_data_length[1] = SENTINEL_LEN THEN <<0>>
            ELSE <<return_data_length[1]>>
        payload == IF write_data = <<>> THEN <<>> ELSE write_data[1]
        buffer == head \o reply_length \o payload
    IN  IF return_data_length # <<>>
           /\ return_data_length[1] # SENTINEL_LEN
           /\ ~FitsU8(return_data_length[1])
        THEN [ok |-> FALSE, bytes |-> <<>>]
        ELSE [ok |-> TRUE, bytes |-> buffer \o to_be_bytes(calculate_crc(buffer))]

\* send_to_serial up to the write: Err when the requested reply length is
\* neither 256 nor a byte, else the bytes handed to write_all
send_to_serial(function_type, length, address, return_data_length, write_data) ==
    LET head == <<START_MARKER, 0, function_type, length>> \o to_be_bytes(address)
        reply_length ==
            IF return_data_length = <<>> THEN <<>>
            ELSE IF return_data_length[1] = SENTINEL_LEN THEN <<0>>
            ELSE <<return_data_length[1]>>
        payload == IF write_data = <<>> THEN <<>> ELSE write_data[1]
        buffer == head \o reply_length \o payload
    IN  IF return_data_length # <<>>
           /\ return_data_length[1] # SENTINEL_LEN
           /\ ~FitsU8(return_data_length[1])
        THEN [ok |-> FALSE, bytes |-> <<>>]
        ELSE [ok |-> TRUE,
              bytes |-> buffer \o to_be_bytes(
                            calculate_crc(SubSeq(buffer, 3, Len(buffer))))]

\* the write frame with the payload length cast to a byte: len as u8
write_frame_truncating(address, data) ==
    send_to_serial(FUNCTION_WRITE, Len(data) % 256, address, <<>>, <<data>>)

\* the frame of send_write_command: Err when the payload length is no byte
write_frame(address, data) ==
    IF ~FitsU8(Len(data))
    THEN [ok |-> FALSE, bytes |-> <<>>]
    ELSE send_to_serial(FUNCTION_WRITE, Len(data), address, <<>>, <<data>>)

\* the read frame with the requested length in the length byte as well
read_frame_length_requested(address, return_len) ==
    send_to_serial(FUNCTION_READ, return_len % 256, address, <<return_len>>, <<>>)

\* the frame of send_read_command_fixed_reply
read_frame(address, return_len) ==
    send_to_serial(FUNCTION_READ, 1, address, <<return_len>>, <<>>)

\* the checksum carried by the last two bytes of a reply, big-endian
received_checksum(buffer) ==
    (buffer[Len(buffer) - 1] * 256) + buffer[Len(buffer)]

\* the length taken as the byte says, 0 included
data_length_no_sentinel(buffer) == buffer[4]

\* byte[3] of a reply as a length, 0 standing for 256
data_length(buffer) == IF buffer[4] = 0 THEN SENTINEL_LEN ELSE buffer[4]

\* the header test with "and" for "or"
invalid_header_both(buffer) == buffer[1] # REPLY_HEADER /\ buffer[2] # 0

\* buffer[0] != 0x02 || buffer[1] != 0x00
invalid_header(buffer) == buffer[1] # REPLY_HEADER \/ buffer[2] # 0

\* the status test reading the reserved byte, one index too low
unsuccessful_reserved_byte(buffer) == buffer[2] # 0

\* buffer[2] != 0x00
unsuccessful(buffer) == buffer[3] # 0

\* the parser copying the whole payload area of the buffer, whatever the
\* length byte says
parse_reply_copy_all(buffer, read_data) ==
    IF Len(buffer) < ENVELOPE_LEN
    THEN [kind |-> "short", val |-> Len(buffer), data |-> read_data]
    ELSE IF invalid_header(buffer)
    THEN [kind |-> "header", val |-> 0, data |-> read_data]
    ELSE IF unsuccessful(buffer)
    THEN [kind |-> "status", val |-> buffer[3], data |-> read_data]
    ELSE IF ~verify_crc(SubSeq(buffer, 3, Len(buffer) - 2),
                        received_checksum(buffer))
    THEN [kind |-> "checksum", val |-> 0, data |-> read_data]
    ELSE IF data_length(buffer) > Len(read_data)
    THEN [kind |-> "panic", val |-> data_length(buffer), data |-> read_data]
    ELSE [kind |-> "ok", val |-> data_length(buffer),
          data |-> [i \in 1..Len(read_data) |-> buffer[4 + i]]]

\* read_from_serial_command_reply once read_exact has filled buffer:
\* the outcome, its value (the length, or the status code) and read_data
\* as the call leaves it.  "panic" is the slice index out of range of
\* read_data[..data_length].
parse_reply(buffer, read_data) ==
    IF Len(buffer) < ENVELOPE_LEN
    THEN [kind |-> "short", val |-> Len(buffer), data |-> read_data]
    ELSE IF invalid_header(buffer)
    THEN [kind |-> "header", val |-> 0, data |-> read_data]
    ELSE IF unsuccessful(buffer)
    THEN [kind |-> "status", val |-> buffer[3], data |-> read_data]
    ELSE IF ~verify_crc(SubSeq(buffer, 3, Len(buffer) - 2),
                        received_checksum(buffer))
    THEN [kind |-> "checksum", val |-> 0, data |-> read_data]
    ELSE IF data_length(buffer) > Len(read_data)
    THEN [kind |-> "panic", val |-> data_length(buffer), data |-> read_data]
    ELSE [kind |-> "ok", val |-> data_length(buffer),
          data |-> [i \in 1..Len(read_data) |->
                       IF i <= data_length(buffer)
                       THEN buffer[4 + i] ELSE read_data[i]]]

(***************************************************************************)
(* Inputs: what callers pass and what the device puts on the line.         *)
(***************************************************************************)
\* lengths of the destination buffers of read commands
DestLens == (1..MaxSmallLen) \cup {SENTINEL_LEN}

\* lengths of the payloads of write commands
WriteLens == (1..MaxSmallLen) \cup {SENTINEL_LEN - 1}

\* write commands, an address and a payload length each.  Those of a
\* session: start_scan (address 2, payload <<1>>) and a payload of 256
\* bytes, whose length is no byte.
SessionWrites == {<<2, 1>>, <<225, SENTINEL_LEN>>}

\* every payload length, at an address with a non-zero high byte
FrameWrites ==
    {<<258, len>> : len \in WriteLens} \cup {<<2, 1>>, <<225, SENTINEL_LEN>>}

\* read commands, an address and the length of the destination buffer each
SessionReads == {<<258, MaxSmallLen>>}

\* every destination length, and 257, which is neither a byte nor 256
FrameReads ==
    {<<258, n>> : n \in DestLens} \cup {<<225, 1>>, <<225, SENTINEL_LEN + 1>>}

\* the bytes 1, 2, .., 255, 1, ..: no byte of it is the 0 a fresh
\* destination buffer holds
Ramp(n) == [i \in 1..n |-> ((i - 1) % 255) + 1]

\* payloads of n bytes; the checksum of the reply carrying <<17, 45>> is
\* 0xABED, one bit away from IGNORED_CHECKSUM
Payloads(n) ==
    {Ramp(n), Fill(n, 62)} \cup (IF n = 2 THEN {<<17, 45>>} ELSE {})

\* a reply frame as the device lays it out
reply_frame(header, status, length_byte, payload, checksum) ==
    header \o <<status, length_byte>> \o payload \o to_be_bytes(checksum)

\* the checksum a device computes for a reply: status byte through payload
reply_crc(status, length_byte, payload) ==
    calculate_crc(<<status, length_byte>> \o payload)

\* the well-formed reply carrying payload
good_reply(payload) ==
    reply_frame(<<REPLY_HEADER, 0>>, 0, Len(payload) % 256, payload,
                reply_crc(0, Len(payload) % 256, payload))

\* header bytes a reply may start with: the valid pair and two invalid ones
Headers == {<<REPLY_HEADER, 0>>, <<3, 0>>, <<REPLY_HEADER, 1>>}

\* status bytes: success and a device error code
Statuses == {0, 5}

\* length bytes of a reply of n payload bytes: exact, one more, one less,
\* one, and 0
LengthBytes(n) == {n % 256, (n + 1) % 256, n - 1, 1, 0}

\* checksums a reply may carry: the computed one, that one with any single
\* bit inverted, and the value of IGNORED_CHECKSUM
Checksums(good) ==
    {good, IGNORED_CHECKSUM} \cup {FlipBit(good, k) : k \in 0..15}

\* what the device may answer in a session to a command whose reply is read
\* into n bytes: the good reply, a wrong header, a device error, a damaged
\* checksum, and a reply declaring one byte more than n
AnswersFor(n) ==
    LET p == Ramp(n)
        lb == n % 256
        over == (n + 1) % 256
    IN  { good_reply(p),
          reply_frame(<<3, 0>>, 0, lb, p, reply_crc(0, lb, p)),
          reply_frame(<<REPLY_HEADER, 0>>, 5, lb, p, reply_crc(5, lb, p)),
          reply_frame(<<REPLY_HEADER, 0>>, 0, lb, p,
                      FlipBit(reply_crc(0, lb, p), 0)),
          reply_frame(<<REPLY_HEADER, 0>>, 0, over, p, reply_crc(0, over, p)) }

Answers == UNION { {[n |-> n, bytes |-> a] : a \in AnswersFor(n)} : n \in DestLens }

\* a device that answers every command with the good reply
GoodAnswers == { [n |-> n, bytes |-> good_reply(Ramp(n))] : n \in DestLens }

\* code ids: the four linear symbologies, QR and DotMatrix, and two the
\* driver does not know
CodeIds == {101, 98, 100, 106, 81, 117, 153, 1}

\* what follows the code id: "12\n\r", "12\r", a line with a byte above
\* 0x7F, "A\n\nB\r", "A\nB\n\r", "\r", "\n\r", "\nA\r"
ScanBodies ==
    { <<49, 50, LINE_FEED, CARRIAGE_RETURN>>,
      <<49, 50, CARRIAGE_RETURN>>,
      <<200, 65, LINE_FEED, CARRIAGE_RETURN>>,
      <<65, LINE_FEED, LINE_FEED, 66, CARRIAGE_RETURN>>,
      <<65, LINE_FEED, 66, LINE_FEED, CARRIAGE_RETURN>>,
      <<CARRIAGE_RETURN>>,
      <<LINE_FEED, CARRIAGE_RETURN>>,
      <<LINE_FEED, 65, CARRIAGE_RETURN>> }

\* scan payloads: nothing found, the EAN13 code "123456789012", and every
\* code id with every body
ScanOutputs ==
    { <<0>>,
      <<100, 49, 50, 51, 52, 53, 54, 55, 56, 57, 48, 49, 50,
        LINE_FEED, CARRIAGE_RETURN>> }
        \cup { <<id>> \o body : id \in CodeIds, body \in ScanBodies }

\* the scan payloads of a session: nothing found, and an EAN13 line
SessionScans == { <<0>>, <<100, 49, LINE_FEED, CARRIAGE_RETURN>> }

\* the registers of a symbology with length limits: the enable flag, the
\* minimum and the maximum length
Code128 == [flag |-> 51, min |-> 52, max |-> 53]

CodeBar == [flag |-> 60, min |-> 61, max |-> 62]

Interleaved2of5 == [flag |-> 64, min |-> 65, max |-> 66]

\* calls of allow_code128, allow_codebar and allow_interleaved2of5: enable,
\* with_start_stop_character (allow_codebar alone has it), min_length and
\* max_length, each None or Some
AllowInputs ==
    UNION { { [sym |-> sym, enable |-> enable, start_stop |-> start_stop,
               min_length |-> min_length, max_length |-> max_length] :
                 enable \in BOOLEAN,
                 start_stop \in IF sym = CodeBar THEN BOOLEAN ELSE {FALSE},
                 min_length \in {<<>>, <<4>>},
                 max_length \in {<<>>, <<20>>} } :
            sym \in {Code128, CodeBar, Interleaved2of5} }

\* what the device answers to the writes of an allow call: the good
\* acknowledgement or a device error
AllowAnswers ==
    { [n |-> 1, bytes |-> good_reply(<<1>>)],
      [n |-> 1,
       bytes |-> reply_frame(<<REPLY_HEADER, 0>>, 5, 1, <<1>>,
                             reply_crc(5, 1, <<1>>))] }

\* durations in ms passed to set_scan_timeout
ScanTimeouts == {0, 1, 250, MAX_SCAN_TIMEOUT_MS, MAX_SCAN_TIMEOUT_MS + 1}

SessionTimeouts == {0, 250}

\* a transmission of len bytes arrives whole, or its first byte does and the
\* rest follows
FirstBursts(len) == {1, len}

(***************************************************************************)
(* State.                                                                  *)
(***************************************************************************)
VARIABLES
    pc,            \* "crc" (inside a call of the checksum engine), or
                   \* where the driver is: "new", "new_write" (inside new,
                   \* before its write), "idle", "await" (frame
                   \* written, reply not read yet), "codeid" and "lines"
                   \* (inside read_barcode), "closed" (no session)
    cur,           \* the call in progress, or the last one
    nCmds,         \* calls made on the session so far
    scan_timeout,  \* BarcodeScanner.scan_timeout, in ms
    wire,          \* the bytes the call handed to write_all
    io,            \* the transport operations of the call, in order
    want,          \* bytes the call asked read_exact for
    buffer,        \* the bytes the call has read: the reply buffer as
                   \* read_exact filled it, or the scan payload so far
    dest,          \* the caller's read_data
    result,        \* what the call returned: kind and value
    foreign,       \* the reply parsed held a byte the device did not send
                   \* in answer to this call
    rx,            \* bytes received and not yet read
    rxFresh,       \* for each byte of rx: sent in answer to the call in progress
    devOut,        \* bytes of a transmission the device has still to send
    devFresh,      \* devOut is part of the answer to the call in progress
    owed,          \* the commands the device has not answered yet
    armed,         \* the device was told to scan and has sent no payload yet
    elapsed,       \* ms since read_from_serial_exact started
    codeid,        \* codeid_buffer[0]
    lines,         \* read_barcode's lines
    line,          \* read_line_from_serial's result
    barcode        \* the Barcode returned: its variant and its lines

vars == <<pc, cur, nCmds, scan_timeout, wire, io, want, buffer, dest, result,
          foreign, rx, rxFresh, devOut, devFresh, owed, armed, elapsed,
          codeid, lines, line, barcode>>

driverVars == <<pc, cur, nCmds, scan_timeout, wire, io, want, buffer, dest,
                result, foreign, elapsed, codeid, lines, line, barcode>>

scanVars == <<elapsed, codeid, lines, line, barcode>>

NoResult == [kind |-> "none", val |-> 0]

NoBarcode == [variant |-> "none", text |-> <<>>]

Call(op, address, data, n, timeout) ==
    [op |-> op, address |-> address, data |-> data, n |-> n,
     timeout |-> timeout]

\* the session BarcodeScanner::new returns: input discarded, the poll
\* timeout set, scan_timeout 5 s, the decoding options acknowledged
Init ==
    /\ pc = "idle"
    /\ cur = Call("none", 0, <<>>, 0, 0)
    /\ nCmds = 0
    /\ scan_timeout = DEFAULT_SCAN_TIMEOUT_MS
    /\ wire = <<>>
    /\ io = <<>>
    /\ want = 0
    /\ buffer = <<>>
    /\ dest = <<>>
    /\ result = NoResult
    /\ foreign = FALSE
    /\ rx = <<>>
    /\ rxFresh = <<>>
    /\ devOut = <<>>
    /\ devFresh = FALSE
    /\ owed = <<>>
    /\ armed = FALSE
    /\ elapsed = 0
    /\ codeid = 0
    /\ lines = <<>>
    /\ line = <<>>
    /\ barcode = NoBarcode

\* new handing out the session whether or not its write was acknowledged
after_call_session_anyway(op, kind) ==
    IF kind = "panic" THEN "closed" ELSE "idle"

\* where the driver is once a call has returned: a panic and a failed new
\* leave no session
after_call(op, kind) ==
    IF kind = "panic" \/ (op = "new" /\ kind # "ok") THEN "closed" ELSE "idle"

\* a call that is not read_barcode has none of read_barcode's locals
no_scan_locals ==
    /\ elapsed' = 0
    /\ codeid' = 0
    /\ lines' = <<>>
    /\ line' = <<>>
    /\ barcode' = NoBarcode

\* start_scan is send_write_command(0x0002, &[0x01])
is_start_scan(c) == c.op = "write" /\ c.address = 2 /\ c.data = <<1>>

\* a new call begins: whatever the device sent or still owes belongs to
\* earlier calls
Stale(flags) == [i \in 1..Len(flags) |-> FALSE]

StaleOwed == [i \in 1..Len(owed) |-> [n |-> owed[i].n, fresh |-> FALSE]]

(***************************************************************************)
(* Command/reply engine.                                                   *)
(***************************************************************************)
\* the sending half of a command: frame construction and write_all.
\* frame is the result of send_to_serial, read_data the destination buffer.
send_command(c, frame, read_data) ==
    /\ cur' = c
    /\ dest' = read_data
    /\ want' = 0
    /\ buffer' = <<>>
    /\ foreign' = FALSE
    /\ rxFresh' = Stale(rxFresh)
    /\ devFresh' = FALSE
    /\ no_scan_locals
    /\ UNCHANGED <<scan_timeout, rx, devOut>>
    /\ \/ /\ ~frame.ok                    \* try_into failed: nothing is sent
          /\ wire' = <<>>
          /\ io' = <<>>
          /\ owed' = StaleOwed
          /\ UNCHANGED armed
          /\ result' = [kind |-> "encode", val |-> 0]
          /\ pc' = after_call(c.op, "encode")
       \/ /\ frame.ok                     \* write_all failed
          /\ wire' = <<>>
          /\ io' = <<>>
          /\ owed' = StaleOwed
          /\ UNCHANGED armed
          /\ result' = [kind |-> "io", val |-> 0]
          /\ pc' = after_call(c.op, "io")
       \/ /\ frame.ok                     \* the frame is on the line
          /\ wire' = frame.bytes
          /\ io' = <<"W">>
          /\ owed' = Append(StaleOwed, [n |-> Len(read_data), fresh |-> TRUE])
          /\ armed' = (armed \/ is_start_scan(c))
          /\ result' = NoResult
          /\ pc' = "await"

\* BarcodeScanner::new up to the struct: the port is opened, its buffers
\* are discarded, the read timeout and scan_timeout are set; any failure of
\* these returns the error and no session
NewOpen ==
    /\ pc = "new"
    /\ \/ /\ pc' = "new_write"
          /\ rx' = <<>>
          /\ rxFresh' = <<>>
          /\ scan_timeout' = DEFAULT_SCAN_TIMEOUT_MS
          /\ UNCHANGED result
       \/ /\ pc' = "closed"
          /\ result' = [kind |-> "io", val |-> 0]
          /\ UNCHANGED <<rx, rxFresh, scan_timeout>>
    /\ UNCHANGED <<cur, nCmds, wire, io, want, buffer, dest, foreign, devOut,
                   devFresh, owed, armed, scanVars>>

\* BarcodeScanner::new: the write of the decoding options
New ==
    /\ pc = "new_write"
    /\ nCmds' = nCmds
    /\ send_command(
           Call("new", DECODING_OPTIONS_ADDRESS, <<DECODING_OPTIONS>>, 1, 0),
           write_frame(DECODING_OPTIONS_ADDRESS, <<DECODING_OPTIONS>>),
           <<0>>)

\* send_write_command(address, data), up to the write
WriteCommand(inputs) ==
    /\ pc = "idle"
    /\ nCmds < MaxCmds
    /\ nCmds' = nCmds + 1
    /\ \E w \in inputs :
           send_command(Call("write", w[1], Ramp(w[2]), 1, 0),
                        write_frame(w[1], Ramp(w[2])),
                        <<0>>)

\* send_read_command_fixed_reply(address, return_data), up to the write
ReadCommand(inputs) ==
    /\ pc = "idle"
    /\ nCmds < MaxCmds
    /\ nCmds' = nCmds + 1
    /\ \E r \in inputs :
           send_command(Call("read", r[1], <<>>, r[2], 0),
                        read_frame(r[1], r[2]),
                        Fill(r[2], 0))

\* the writes of an allow call with length limits, in the order the code
\* makes them: an address and a payload each
allow_writes(a) ==
    IF a.enable
    THEN (IF a.min_length # <<>>
          THEN <<[address |-> a.sym.min, data |-> a.min_length]>> ELSE <<>>)
         \o (IF a.max_length # <<>>
             THEN <<[address |-> a.sym.max, data |-> a.max_length]>> ELSE <<>>)
         \o <<[address |-> a.sym.flag,
               data |-> <<IF a.start_stop THEN 3 ELSE 1>>]>>
    ELSE <<[address |-> a.sym.flag, data |-> <<0>>]>>

\* the allow call a at its write number step
AllowCall(a, step) ==
    [op |-> "allow", address |-> allow_writes(a)[step].address,
     data |-> allow_writes(a)[step].data, n |-> 1, timeout |-> 0,
     args |-> a, step |-> step]

\* an allow call is between two of its writes, whatever the last one returned
allow_between_writes_any ==
    /\ pc = "idle"
    /\ cur.op = "allow"
    /\ cur.step < Len(allow_writes(cur.args))

\* an allow call is between two of its writes: the last send_write_command
\* returned Ok and there is another to make (an Err has left the call by `?`)
allow_between_writes ==
    /\ pc = "idle"
    /\ cur.op = "allow"
    /\ result.kind = "ok"
    /\ cur.step < Len(allow_writes(cur.args))

\* an allow_* with length limits is called: its first send_write_command, up
\* to the write
Allow(inputs) ==
    /\ pc = "idle"
    /\ ~allow_between_writes
    /\ nCmds < MaxCmds
    /\ nCmds' = nCmds + 1
    /\ \E a \in inputs :
           send_command(AllowCall(a, 1),
                        write_frame(AllowCall(a, 1).address,
                                    AllowCall(a, 1).data),
                        <<0>>)

\* the next send_write_command of the allow call, up to the write
AllowNext ==
    /\ allow_between_writes
    /\ nCmds' = nCmds
    /\ send_command(AllowCall(cur.args, cur.step + 1),
                    write_frame(AllowCall(cur.args, cur.step + 1).address,
                                AllowCall(cur.args, cur.step + 1).data),
                    <<0>>)

\* set_scan_timeout refusing the maximum as well: >= for >
SetScanTimeout_max_excluded(timeouts) ==
    /\ pc = "idle"
    /\ nCmds < MaxCmds
    /\ nCmds' = nCmds + 1
    /\ \E timeout \in timeouts :
           LET c == Call("set_scan_timeout", SCAN_TIMEOUT_ADDRESS,
                         <<timeout \div POLL_MS>>, 1, timeout)
           IN  IF timeout >= MAX_SCAN_TIMEOUT_MS \/ timeout = 0
               THEN /\ cur' = c
                    /\ result' = [kind |-> IF timeout = 0 THEN "unsupported"
                                                          ELSE "range",
                                  val |-> 0]
                    /\ wire' = <<>>
                    /\ io' = <<>>
                    /\ want' = 0
                    /\ buffer' = <<>>
                    /\ dest' = <<>>
                    /\ foreign' = FALSE
                    /\ rxFresh' = Stale(rxFresh)
                    /\ devFresh' = FALSE
                    /\ owed' = StaleOwed
                    /\ pc' = "idle"
                    /\ no_scan_locals
                    /\ UNCHANGED <<scan_timeout, rx, devOut, armed>>
               ELSE send_command(c, write_frame(c.address, c.data), <<0>>)

\* set_scan_timeout(scan_timeout), up to the write; timeout is in ms
SetScanTimeout(timeouts) ==
    /\ pc = "idle"
    /\ nCmds < MaxCmds
    /\ nCmds' = nCmds + 1
    /\ \E timeout \in timeouts :
           LET c == Call("set_scan_timeout", SCAN_TIMEOUT_ADDRESS,
                         <<timeout \div POLL_MS>>, 1, timeout)
           IN  IF timeout > MAX_SCAN_TIMEOUT_MS \/ timeout = 0
               THEN /\ cur' = c
                    /\ result' = [kind |-> IF timeout = 0 THEN "unsupported"
                                                          ELSE "range",
                                  val |-> 0]
                    /\ wire' = <<>>
                    /\ io' = <<>>
                    /\ want' = 0
                    /\ buffer' = <<>>
                    /\ dest' = <<>>
                    /\ foreign' = FALSE
                    /\ rxFresh' = Stale(rxFresh)
                    /\ devFresh' = FALSE
                    /\ owed' = StaleOwed
                    /\ pc' = "idle"
                    /\ no_scan_locals
                    /\ UNCHANGED <<scan_timeout, rx, devOut, armed>>
               ELSE send_command(c, write_frame(c.address, c.data), <<0>>)

\* the field assigned before the acknowledgement has been validated
scan_timeout_assigned_first(op, kind, requested, previous) ==
    IF op = "set_scan_timeout" THEN requested ELSE previous

\* self.scan_timeout once the reply of a command has been parsed:
\* set_scan_timeout assigns it after send_write_command returned Ok
scan_timeout_after(op, kind, requested, previous) ==
    IF op = "set_scan_timeout" /\ kind = "ok" THEN requested ELSE previous

\* the receiving half with a retry: a reply that fails a check makes the
\* command write its frame again and wait for another reply
ReplyRead_retry ==
    /\ pc = "await"
    /\ Len(rx) >= Len(dest) + ENVELOPE_LEN
    /\ LET size == Len(dest) + ENVELOPE_LEN
           read == SubSeq(rx, 1, size)
           reply == parse_reply(read, dest)
           again == reply.kind \in {"header", "status", "checksum"}
       IN  /\ want' = size
           /\ buffer' = read
           /\ io' = IF again THEN io \o <<"R", "W">> ELSE Append(io, "R")
           /\ owed' = IF again
                      THEN Append(owed, [n |-> Len(dest), fresh |-> TRUE])
                      ELSE owed
           /\ rx' = SubSeq(rx, size + 1, Len(rx))
           /\ rxFresh' = SubSeq(rxFresh, size + 1, Len(rxFresh))
           /\ foreign' = (\E i \in 1..size : ~rxFresh[i])
           /\ dest' = reply.data
           /\ result' = [kind |-> reply.kind, val |-> reply.val]
           /\ scan_timeout' = scan_timeout_after(cur.op, reply.kind,
                                                 cur.timeout, scan_timeout)
           /\ pc' = IF again THEN "await" ELSE after_call(cur.op, reply.kind)
    /\ UNCHANGED <<cur, nCmds, wire, devOut, devFresh, armed, scanVars>>

\* the receiving half of a command, read_from_serial_command_reply, when the
\* line holds the bytes read_exact asks for
ReplyRead ==
    /\ pc = "await"
    /\ Len(rx) >= Len(dest) + ENVELOPE_LEN
    /\ LET size == Len(dest) + ENVELOPE_LEN
           read == SubSeq(rx, 1, size)
           reply == parse_reply(read, dest)
       IN  /\ want' = size
           /\ buffer' = read
           /\ io' = Append(io, "R")
           /\ rx' = SubSeq(rx, size + 1, Len(rx))
           /\ rxFresh' = SubSeq(rxFresh, size + 1, Len(rxFresh))
           /\ foreign' = (\E i \in 1..size : ~rxFresh[i])
           /\ dest' = reply.data
           /\ result' = [kind |-> reply.kind, val |-> reply.val]
           /\ scan_timeout' = scan_timeout_after(cur.op, reply.kind,
                                                 cur.timeout, scan_timeout)
           /\ pc' = after_call(cur.op, reply.kind)
    /\ UNCHANGED <<cur, nCmds, wire, devOut, devFresh, owed, armed, scanVars>>

\* the same when the line falls silent for a poll interval before the bytes
\* asked for are there: read_exact fails with TimedOut, the bytes it took
\* are lost with its buffer
ReplyTimeout ==
    /\ pc = "await"
    /\ Len(rx) < Len(dest) + ENVELOPE_LEN
    /\ want' = Len(dest) + ENVELOPE_LEN
    /\ buffer' = rx
    /\ io' = Append(io, "R")
    /\ rx' = <<>>
    /\ rxFresh' = <<>>
    /\ foreign' = FALSE
    /\ result' = [kind |-> "io", val |-> 0]
    /\ pc' = after_call(cur.op, "io")
    /\ UNCHANGED <<cur, nCmds, scan_timeout, wire, dest, devOut, devFresh,
                   owed, armed, scanVars>>

(***************************************************************************)
(* The device.                                                             *)
(***************************************************************************)
\* the device answers the oldest command it has not answered yet
DeviceReply(answers) ==
    /\ pc # "closed"
    /\ owed # <<>>
    /\ devOut = <<>>
    /\ \E a \in answers :
          /\ a.n = owed[1].n
          /\ \E k \in FirstBursts(Len(a.bytes)) :
                /\ rx' = rx \o SubSeq(a.bytes, 1, k)
                /\ rxFresh' = rxFresh \o Fill(k, owed[1].fresh)
                /\ devOut' = SubSeq(a.bytes, k + 1, Len(a.bytes))
                /\ devFresh' = owed[1].fresh
    /\ owed' = Tail(owed)
    /\ UNCHANGED <<driverVars, armed>>

\* the device, told to scan and with no answer left to give, emits a scan
\* payload
DeviceScan(outputs) ==
    /\ pc # "closed"
    /\ armed
    /\ owed = <<>>
    /\ devOut = <<>>
    /\ armed' = FALSE
    /\ \E s \in outputs :
          \E k \in FirstBursts(Len(s)) :
             /\ rx' = rx \o SubSeq(s, 1, k)
             /\ rxFresh' = rxFresh \o Fill(k, FALSE)
             /\ devOut' = SubSeq(s, k + 1, Len(s))
    /\ devFresh' = FALSE
    /\ UNCHANGED <<driverVars, owed>>

\* the rest of a transmission arrives
DeviceFlush ==
    /\ pc # "closed"
    /\ devOut # <<>>
    /\ rx' = rx \o devOut
    /\ rxFresh' = rxFresh \o Fill(Len(devOut), devFresh)
    /\ devOut' = <<>>
    /\ devFresh' = FALSE
    /\ UNCHANGED <<driverVars, owed, armed>>

(***************************************************************************)
(* Scan payload decoder.                                                   *)
(***************************************************************************)
\* the conversion taking the bytes above 0x7F for invalid text, as a UTF-8
\* decoder does: they become U+FFFD
as_char_lossy(c) == [codepoint |-> IF c < 128 THEN c ELSE 65533]

\* c as char: a byte becomes the character whose code point is its value.
\* A char is [codepoint |-> 0 .. 0x10FFFF], a String a sequence of chars.
as_char(c) == [codepoint |-> c]

to_string(bytes) == [i \in 1..Len(bytes) |-> as_char(bytes[i])]

\* the match with the linear symbologies carrying the last line read
decode_last_line(id, all) ==
    CASE id = 101 -> [variant |-> "Interleaved2of5",
                      text |-> to_string(all[Len(all)])]
      [] id = 98  -> [variant |-> "Code39", text |-> to_string(all[Len(all)])]
      [] id = 100 -> [variant |-> "EAN13", text |-> to_string(all[Len(all)])]
      [] id = 106 -> [variant |-> "Code128", text |-> to_string(all[Len(all)])]
      [] id = 81  -> [variant |-> "QR",
                      text |-> [i \in 1..Len(all) |-> to_string(all[i])]]
      [] id = 117 -> [variant |-> "DotMatrix",
                      text |-> [i \in 1..Len(all) |-> to_string(all[i])]]
      [] OTHER    -> NoBarcode

\* the match on the code id: the variant and what it carries, the first line
\* as a String for the linear symbologies, every line as a Vec<String> for
\* the others
decode(id, all) ==
    CASE id = 101 -> [variant |-> "Interleaved2of5", text |-> to_string(all[1])]
      [] id = 98  -> [variant |-> "Code39", text |-> to_string(all[1])]
      [] id = 100 -> [variant |-> "EAN13", text |-> to_string(all[1])]
      [] id = 106 -> [variant |-> "Code128", text |-> to_string(all[1])]
      [] id = 81  -> [variant |-> "QR",
                      text |-> [i \in 1..Len(all) |-> to_string(all[i])]]
      [] id = 117 -> [variant |-> "DotMatrix",
                      text |-> [i \in 1..Len(all) |-> to_string(all[i])]]
      [] OTHER    -> NoBarcode

\* the return with an unknown code id for no result
finish_scan_unknown_is_none(id, all) ==
    IF all = <<>> \/ decode(id, all).variant = "none"
    THEN [kind |-> "noresult", barcode |-> NoBarcode]
    ELSE [kind |-> "barcode", barcode |-> decode(id, all)]

\* the return with the match on the code id ahead of the test for no lines
finish_scan_match_first(id, all) ==
    IF id \notin {101, 98, 100, 106, 81, 117}
    THEN [kind |-> "unsupported_type", barcode |-> NoBarcode]
    ELSE IF all = <<>>
    THEN [kind |-> "noresult", barcode |-> NoBarcode]
    ELSE [kind |-> "barcode", barcode |-> decode(id, all)]

\* read_barcode from the end of the line loop to its return
finish_scan(id, all) ==
    IF all = <<>>
    THEN [kind |-> "noresult", barcode |-> NoBarcode]
    ELSE IF decode(id, all).variant = "none"
    THEN [kind |-> "unsupported_type", barcode |-> NoBarcode]
    ELSE [kind |-> "barcode", barcode |-> decode(id, all)]

\* read_barcode is called: the code id buffer is zeroed and the deadline
\* bounded read starts
ReadBarcode ==
    /\ pc = "idle"
    /\ nCmds < MaxCmds
    /\ nCmds' = nCmds + 1
    /\ cur' = Call("read_barcode", 0, <<>>, 1, scan_timeout)
    /\ pc' = "codeid"
    /\ codeid' = 0
    /\ elapsed' = 0
    /\ lines' = <<>>
    /\ line' = <<>>
    /\ barcode' = NoBarcode
    /\ result' = NoResult
    /\ wire' = <<>>
    /\ io' = <<>>
    /\ want' = 0
    /\ buffer' = <<>>
    /\ dest' = <<>>
    /\ foreign' = FALSE
    /\ rxFresh' = Stale(rxFresh)
    /\ devFresh' = FALSE
    /\ owed' = StaleOwed
    /\ UNCHANGED <<scan_timeout, rx, devOut, armed>>

\* the code id read with the deadline passed on as the TimedOut error
ScanPoll_deadline_error ==
    /\ pc = "codeid"
    /\ rx = <<>>
    /\ elapsed' = elapsed + POLL_MS
    /\ IF elapsed + POLL_MS < cur.timeout
       THEN UNCHANGED <<pc, result>>
       ELSE /\ pc' = "idle"
            /\ result' = [kind |-> "io", val |-> 0]
    /\ UNCHANGED <<cur, nCmds, scan_timeout, wire, io, want, buffer, dest,
                   foreign, rx, rxFresh, devOut, devFresh, owed, armed,
                   codeid, lines, line, barcode>>

\* the code id read going on while the elapsed time has not passed the
\* timeout: <= for <
ScanPoll_deadline_inclusive ==
    /\ pc = "codeid"
    /\ rx = <<>>
    /\ elapsed' = elapsed + POLL_MS
    /\ IF elapsed + POLL_MS <= cur.timeout
       THEN UNCHANGED <<pc, result>>
       ELSE /\ pc' = "idle"
            /\ result' = [kind |-> IF codeid = 0 THEN "noresult" ELSE "none",
                          val |-> 0]
    /\ UNCHANGED <<cur, nCmds, scan_timeout, wire, io, want, buffer, dest,
                   foreign, rx, rxFresh, devOut, devFresh, owed, armed,
                   codeid, lines, line, barcode>>

\* read_from_serial_exact: a poll of the code id read times out; the loop
\* goes on while the elapsed time is below the timeout, and returns Ok with
\* the buffer untouched otherwise, which read_barcode takes for no result
ScanPoll ==
    /\ pc = "codeid"
    /\ rx = <<>>
    /\ elapsed' = elapsed + POLL_MS
    /\ IF elapsed + POLL_MS < cur.timeout
       THEN UNCHANGED <<pc, result>>
       ELSE /\ pc' = "idle"
            /\ result' = [kind |-> IF codeid = 0 THEN "noresult" ELSE "none",
                          val |-> 0]
    /\ UNCHANGED <<cur, nCmds, scan_timeout, wire, io, want, buffer, dest,
                   foreign, rx, rxFresh, devOut, devFresh, owed, armed,
                   codeid, lines, line, barcode>>

\* the code id read gets its byte: 0 is no result, anything else opens the
\* line loop
ScanCodeId ==
    /\ pc = "codeid"
    /\ rx # <<>>
    /\ codeid' = Head(rx)
    /\ buffer' = Append(buffer, Head(rx))
    /\ rx' = Tail(rx)
    /\ rxFresh' = Tail(rxFresh)
    /\ IF Head(rx) = 0
       THEN /\ pc' = "idle"
            /\ result' = [kind |-> "noresult", val |-> 0]
       ELSE /\ pc' = "lines"
            /\ result' = NoResult
    /\ UNCHANGED <<cur, nCmds, scan_timeout, wire, io, want, dest,
                   foreign, devOut, devFresh, owed, armed, elapsed, lines,
                   line, barcode>>

\* the line loop pushing every line it reads, the empty ones too
LineByte_keep_empty ==
    /\ pc = "lines"
    /\ rx # <<>>
    /\ buffer' = Append(buffer, Head(rx))
    /\ rx' = Tail(rx)
    /\ rxFresh' = Tail(rxFresh)
    /\ LET b == Head(rx)
           kept == Append(lines, line)
       IN  IF b = LINE_FEED
           THEN /\ lines' = kept
                /\ line' = <<>>
                /\ UNCHANGED <<pc, result, barcode>>
           ELSE IF b = CARRIAGE_RETURN
           THEN /\ lines' = kept
                /\ line' = <<>>
                /\ pc' = "idle"
                /\ result' = [kind |-> finish_scan(codeid, kept).kind,
                              val |-> Len(kept)]
                /\ barcode' = finish_scan(codeid, kept).barcode
           ELSE /\ line' = Append(line, b)
                /\ UNCHANGED <<pc, result, barcode, lines>>
    /\ UNCHANGED <<cur, nCmds, scan_timeout, wire, io, want, dest,
                   foreign, devOut, devFresh, owed, armed, elapsed, codeid>>

\* the line loop emptying the receive buffer once it has read the carriage
\* return
LineByte_drain_after_end ==
    /\ pc = "lines"
    /\ rx # <<>>
    /\ buffer' = Append(buffer, Head(rx))
    /\ rx' = IF Head(rx) = CARRIAGE_RETURN THEN <<>> ELSE Tail(rx)
    /\ rxFresh' = IF Head(rx) = CARRIAGE_RETURN THEN <<>> ELSE Tail(rxFresh)
    /\ LET b == Head(rx)
           kept == IF Len(line) > 0 THEN Append(lines, line) ELSE lines
       IN  IF b = LINE_FEED
           THEN /\ lines' = kept
                /\ line' = <<>>
                /\ UNCHANGED <<pc, result, barcode>>
           ELSE IF b = CARRIAGE_RETURN
           THEN /\ lines' = kept
                /\ line' = <<>>
                /\ pc' = "idle"
                /\ result' = [kind |-> finish_scan(codeid, kept).kind,
                              val |-> Len(kept)]
                /\ barcode' = finish_scan(codeid, kept).barcode
           ELSE /\ line' = Append(line, b)
                /\ UNCHANGED <<pc, result, barcode, lines>>
    /\ UNCHANGED <<cur, nCmds, scan_timeout, wire, io, want, dest,
                   foreign, devOut, devFresh, owed, armed, elapsed, codeid>>

\* read_line_from_serial reads one byte: a line feed ends the line, a
\* carriage return ends the line and the data, any other byte joins the
\* line; read_barcode keeps the lines that are not empty
LineByte ==
    /\ pc = "lines"
    /\ rx # <<>>
    /\ buffer' = Append(buffer, Head(rx))
    /\ rx' = Tail(rx)
    /\ rxFresh' = Tail(rxFresh)
    /\ LET b == Head(rx)
           kept == IF Len(line) > 0 THEN Append(lines, line) ELSE lines
       IN  IF b = LINE_FEED
           THEN /\ lines' = kept
                /\ line' = <<>>
                /\ UNCHANGED <<pc, result, barcode>>
           ELSE IF b = CARRIAGE_RETURN
           THEN /\ lines' = kept
                /\ line' = <<>>
                /\ pc' = "idle"
                /\ result' = [kind |-> finish_scan(codeid, kept).kind,
                              val |-> Len(kept)]
                /\ barcode' = finish_scan(codeid, kept).barcode
           ELSE /\ line' = Append(line, b)
                /\ UNCHANGED <<pc, result, barcode, lines>>
    /\ UNCHANGED <<cur, nCmds, scan_timeout, wire, io, want, dest,
                   foreign, devOut, devFresh, owed, armed, elapsed, codeid>>

\* the line loop reading again after a silent poll interval, as the code id
\* read does
LineTimeout_retry ==
    /\ pc = "lines"
    /\ rx = <<>>
    /\ UNCHANGED vars

\* read_line_from_serial's read finds the line silent for a poll interval:
\* the TimedOut error is returned as it is
LineTimeout ==
    /\ pc = "lines"
    /\ rx = <<>>
    /\ pc' = "idle"
    /\ result' = [kind |-> "io", val |-> 0]
    /\ UNCHANGED <<cur, nCmds, scan_timeout, wire, io, want, buffer, dest,
                   foreign, rx, rxFresh, devOut, devFresh, owed, armed,
                   elapsed, codeid, lines, line, barcode>>

(***************************************************************************)
(* The session: the driver's calls and the device, interleaved.            *)
(***************************************************************************)
Next ==
    \/ WriteCommand(SessionWrites)
    \/ ReadCommand(SessionReads)
    \/ SetScanTimeout(SessionTimeouts)
    \/ ReplyRead
    \/ ReplyTimeout
    \/ ReadBarcode
    \/ ScanPoll
    \/ ScanCodeId
    \/ LineByte
    \/ LineTimeout
    \/ DeviceReply(Answers)
    \/ DeviceScan(SessionScans)
    \/ DeviceFlush

Spec == Init /\ [][Next]_vars

(***************************************************************************)
(* The scan payloads: read_barcode after start_scan, with a device that    *)
(* emits every scan payload.                                               *)
(***************************************************************************)
\* start_scan has just been acknowledged: the device is scanning
InitScan ==
    /\ pc = "idle"
    /\ cur = Call("write", 2, <<1>>, 1, 0)
    /\ nCmds = 1
    /\ scan_timeout = DEFAULT_SCAN_TIMEOUT_MS
    /\ wire = write_frame(2, <<1>>).bytes
    /\ io = <<"W", "R">>
    /\ want = 1 + ENVELOPE_LEN
    /\ buffer = good_reply(<<1>>)
    /\ dest = <<1>>
    /\ result = [kind |-> "ok", val |-> 1]
    /\ foreign = FALSE
    /\ rx = <<>>
    /\ rxFresh = <<>>
    /\ devOut = <<>>
    /\ devFresh = FALSE
    /\ owed = <<>>
    /\ armed = TRUE
    /\ elapsed = 0
    /\ codeid = 0
    /\ lines = <<>>
    /\ line = <<>>
    /\ barcode = NoBarcode

NextScan ==
    \/ ReadBarcode
    \/ ScanPoll
    \/ ScanCodeId
    \/ LineByte
    \/ LineTimeout
    \/ DeviceScan(ScanOutputs)
    \/ DeviceFlush

SpecScan == InitScan /\ [][NextScan]_vars

\* a step of the thread that runs read_barcode
ScanStep == ScanPoll \/ ScanCodeId \/ LineByte \/ LineTimeout

\* the same with the calling thread running: a read of the port returns, with
\* a byte or with TimedOut after the read timeout, and the call goes on
SpecScanFair == InitScan /\ [][NextScan]_vars /\ WF_vars(ScanStep)

(***************************************************************************)
(* The deadline of read_barcode: every kind of scan timeout, a device that *)
(* stays silent or sends late.                                             *)
(***************************************************************************)
\* scan timeouts a session may hold, in ms: below a poll interval, a poll
\* interval, between two polls, the default, the maximum
DeadlineTimeouts ==
    {1, POLL_MS, 250, DEFAULT_SCAN_TIMEOUT_MS, MAX_SCAN_TIMEOUT_MS}

\* start_scan has just been acknowledged in a session whose scan timeout
\* was set before
InitDeadline ==
    \E timeout \in DeadlineTimeouts :
       /\ pc = "idle"
       /\ cur = Call("write", 2, <<1>>, 1, 0)
       /\ nCmds = 1
       /\ scan_timeout = timeout
       /\ wire = write_frame(2, <<1>>).bytes
       /\ io = <<"W", "R">>
       /\ want = 1 + ENVELOPE_LEN
       /\ buffer = good_reply(<<1>>)
       /\ dest = <<1>>
       /\ result = [kind |-> "ok", val |-> 1]
       /\ foreign = FALSE
       /\ rx = <<>>
       /\ rxFresh = <<>>
       /\ devOut = <<>>
       /\ devFresh = FALSE
       /\ owed = <<>>
       /\ armed = TRUE
       /\ elapsed = 0
       /\ codeid = 0
       /\ lines = <<>>
       /\ line = <<>>
       /\ barcode = NoBarcode

NextDeadline ==
    \/ ReadBarcode
    \/ ScanPoll
    \/ ScanCodeId
    \/ LineByte
    \/ LineTimeout
    \/ DeviceScan(SessionScans)
    \/ DeviceFlush

SpecDeadline == InitDeadline /\ [][NextDeadline]_vars

(***************************************************************************)
(* The scan stream: read_barcode with a device that sends more than one    *)
(* payload in a row.                                                       *)
(***************************************************************************)
\* what the device sends in one go: an EAN13 payload and a QR payload, the
\* no-read byte and a Code39 payload, an unknown code id with a line and a
\* QR payload, a payload without lines and the start of another, and two
\* carriage returns in a row
StreamOutputs ==
    { <<100, 49, LINE_FEED, CARRIAGE_RETURN, 81, 65, CARRIAGE_RETURN>>,
      <<0, 98, 49, CARRIAGE_RETURN>>,
      <<153, 49, CARRIAGE_RETURN, 81, 65, CARRIAGE_RETURN>>,
      <<106, LINE_FEED, CARRIAGE_RETURN, 100, 49>>,
      <<81, 65, LINE_FEED, 66, CARRIAGE_RETURN, CARRIAGE_RETURN>> }

NextStream ==
    \/ ReadBarcode
    \/ ScanPoll
    \/ ScanCodeId
    \/ LineByte
    \/ LineTimeout
    \/ DeviceScan(StreamOutputs)
    \/ DeviceFlush

SpecStream == InitScan /\ [][NextStream]_vars

(***************************************************************************)
(* The symbologies with length limits: allow calls and a device that       *)
(* acknowledges or refuses each write.                                     *)
(***************************************************************************)
NextAllow ==
    \/ Allow(AllowInputs)
    \/ AllowNext
    \/ ReplyRead
    \/ ReplyTimeout
    \/ DeviceReply(AllowAnswers)
    \/ DeviceFlush

SpecAllow == Init /\ [][NextAllow]_vars

(***************************************************************************)
(* The scan timeout: set_scan_timeout with every duration of interest and  *)
(* a device that answers in every way.                                     *)
(***************************************************************************)
NextConfig ==
    \/ SetScanTimeout(ScanTimeouts)
    \/ ReplyRead
    \/ ReplyTimeout
    \/ DeviceReply(Answers)
    \/ DeviceFlush

SpecConfig == Init /\ [][NextConfig]_vars

(***************************************************************************)
(* Session creation: new on a port that may hold input of an earlier       *)
(* session, followed by commands.                                          *)
(***************************************************************************)
\* what the port holds when new is called: nothing, the end of a scan
\* payload, an acknowledgement nobody read
PendingInputs == { <<>>, <<49, CARRIAGE_RETURN>>, good_reply(<<1>>) }

\* what is still on its way to the port then: nothing, or an acknowledgement
LateInputs == { <<>>, good_reply(<<1>>) }

InitNew ==
    \E pending \in PendingInputs, late \in LateInputs :
       /\ pc = "new"
       /\ cur = Call("none", 0, <<>>, 0, 0)
       /\ nCmds = 0
       /\ scan_timeout = 0
       /\ wire = <<>>
       /\ io = <<>>
       /\ want = 0
       /\ buffer = <<>>
       /\ dest = <<>>
       /\ result = NoResult
       /\ foreign = FALSE
       /\ rx = pending
       /\ rxFresh = Fill(Len(pending), FALSE)
       /\ devOut = late
       /\ devFresh = FALSE
       /\ owed = <<>>
       /\ armed = FALSE
       /\ elapsed = 0
       /\ codeid = 0
       /\ lines = <<>>
       /\ line = <<>>
       /\ barcode = NoBarcode

NextNew ==
    \/ NewOpen
    \/ New
    \/ WriteCommand(SessionWrites)
    \/ ReadCommand(SessionReads)
    \/ ReplyRead
    \/ ReplyTimeout
    \/ DeviceReply(Answers)
    \/ DeviceFlush

SpecNew == InitNew /\ [][NextNew]_vars

(***************************************************************************)
(* The checksum engine: calculate_crc and verify_crc called on their own.  *)
(***************************************************************************)
\* bytes the data of a checksum call is made of
CrcBytes == {0, 1, 62, 255}

RECURSIVE SeqsUpTo(_, _)
\* the sequences over S of length n and less
SeqsUpTo(S, n) ==
    IF n = 0 THEN {<<>>}
    ELSE LET shorter == SeqsUpTo(S, n - 1)
         IN  shorter \cup {Append(q, b) : q \in shorter, b \in S}

\* data: the short sequences, the vectors of test_calculate_crc, a frame
\* whose checksum is 0xABED and one whose checksum is 0xABCD
CrcData ==
    SeqsUpTo(CrcBytes, MaxSmallLen)
        \cup { <<0, 1, 0>>, <<0, 7, 1, 0, 10, 1>>, <<0, 0, 1, 62>>,
               <<0, 8, 1, 0, 10, 62>>, <<0, 2, 17, 45>>, <<189, 29>> }

\* expected checksums for data whose checksum is good
CrcExpected(good) == Checksums(good) \cup {0}

InitCrc ==
    \E d \in CrcData :
       \E c \in {[op |-> "calculate_crc", data |-> d, expected |-> 0]}
                \cup {[op |-> "verify_crc", data |-> d, expected |-> x] :
                          x \in CrcExpected(calculate_crc(d))} :
          /\ pc = "crc"
          /\ cur = c
          /\ nCmds = 0
          /\ scan_timeout = DEFAULT_SCAN_TIMEOUT_MS
          /\ wire = <<>>
          /\ io = <<>>
          /\ want = 0
          /\ buffer = <<>>
          /\ dest = <<>>
          /\ result = NoResult
          /\ foreign = FALSE
          /\ rx = <<>>
          /\ rxFresh = <<>>
          /\ devOut = <<>>
          /\ devFresh = FALSE
          /\ owed = <<>>
          /\ armed = FALSE
          /\ elapsed = 0
          /\ codeid = 0
          /\ lines = <<>>
          /\ line = <<>>
          /\ barcode = NoBarcode

\* calculate_crc(data) returns
CalculateCrc ==
    /\ pc = "crc"
    /\ cur.op = "calculate_crc"
    /\ result' = [kind |-> "ok", val |-> calculate_crc(cur.data)]
    /\ pc' = "idle"
    /\ UNCHANGED <<cur, nCmds, scan_timeout, wire, io, want, buffer, dest,
                   foreign, rx, rxFresh, devOut, devFresh, owed, armed,
                   scanVars>>

\* verify_crc(data, expected_checksum) returns
VerifyCrc ==
    /\ pc = "crc"
    /\ cur.op = "verify_crc"
    /\ result' = [kind |-> IF verify_crc(cur.data, cur.expected)
                           THEN "ok" ELSE "checksum",
                  val |-> 0]
    /\ pc' = "idle"
    /\ UNCHANGED <<cur, nCmds, scan_timeout, wire, io, want, buffer, dest,
                   foreign, rx, rxFresh, devOut, devFresh, owed, armed,
                   scanVars>>

NextCrc == CalculateCrc \/ VerifyCrc

SpecCrc == InitCrc /\ [][NextCrc]_vars

(***************************************************************************)
(* The command frames: every payload and destination length is sent to a   *)
(* device that answers well.                                               *)
(***************************************************************************)
NextFrame ==
    \/ WriteCommand(FrameWrites)
    \/ ReadCommand(FrameReads)
    \/ ReplyRead
    \/ ReplyTimeout
    \/ DeviceReply(GoodAnswers)
    \/ DeviceFlush

SpecFrame == Init /\ [][NextFrame]_vars

(***************************************************************************)
(* The reply parser: a command has been written and the device's reply,    *)
(* any combination of header, status, length byte, payload and checksum,   *)
(* has arrived in full.                                                    *)
(***************************************************************************)
\* the commands awaiting the reply: start_scan, with its 1-byte ack buffer,
\* and a read into every destination length
CodecCalls ==
    {Call("write", 2, <<1>>, 1, 0)}
        \cup {Call("read", 258, <<>>, n, 0) : n \in DestLens}

\* the frame send_to_serial wrote for the call
frame_of(c) ==
    IF c.op = "read" THEN read_frame(c.address, c.n)
                     ELSE write_frame(c.address, c.data)

InitCodec ==
    \E c \in CodecCalls, h \in Headers, s \in Statuses :
       \E lb \in LengthBytes(c.n), p \in Payloads(c.n) :
          \E ck \in Checksums(reply_crc(s, lb, p)) :
             /\ pc = "await"
             /\ cur = c
             /\ nCmds = 1
             /\ scan_timeout = DEFAULT_SCAN_TIMEOUT_MS
             /\ wire = frame_of(c).bytes
             /\ io = <<"W">>
             /\ want = 0
             /\ buffer = <<>>
             /\ dest = Fill(c.n, 0)
             /\ result = NoResult
             /\ foreign = FALSE
             /\ rx = reply_frame(h, s, lb, p, ck)
             /\ rxFresh = Fill(c.n + ENVELOPE_LEN, TRUE)
             /\ devOut = <<>>
             /\ devFresh = FALSE
             /\ owed = <<>>
             /\ armed = is_start_scan(c)
             /\ elapsed = 0
             /\ codeid = 0
             /\ lines = <<>>
             /\ line = <<>>
             /\ barcode = NoBarcode

NextCodec == ReplyRead

SpecCodec == InitCodec /\ [][NextCodec]_vars

(***************************************************************************)
(* Properties of the reply parser.                                         *)
(***************************************************************************)
\* the call has read its reply in full and returned
reply_parsed == pc # "await" /\ Len(io) = 2 /\ want > 0 /\ Len(buffer) = want

\* the payload bytes of a reply buffer
payload_of(reply) == SubSeq(reply, 5, Len(reply) - 2)

\* the destination buffer as the caller passed it
fresh_destination == Fill(cur.n, 0)

\* a reply has the valid header and status 0
header_and_status_ok(reply) == reply[1] = 2 /\ reply[2] = 0 /\ reply[3] = 0

\* the trailing checksum of a reply is the CRC of status through payload
checksum_matches(reply) ==
    received_checksum(reply) = calculate_crc(SubSeq(reply, 3, Len(reply) - 2))

\* C1: a reply [0x02, 0x00, 0x00, L mod 256, payload, CRC_hi, CRC_lo] of L
\* payload bytes, 1 <= L <= 256, read into a destination of L bytes is
\* accepted: the call returns L and the destination equals the payload.
ReplyRoundTrip ==
    (reply_parsed /\ buffer = good_reply(payload_of(buffer)))
        => /\ result = [kind |-> "ok", val |-> Len(payload_of(buffer))]
           /\ Len(payload_of(buffer)) = cur.n
           /\ dest = payload_of(buffer)

\* a reply of 256 payload bytes, its length byte 0, has been accepted
ReplyRoundTripWitness ==
    /\ reply_parsed
    /\ buffer = good_reply(Ramp(256))
    /\ buffer[4] = 0
    /\ result = [kind |-> "ok", val |-> 256]
    /\ dest = Ramp(256)

\* C4: a reply with valid header and status 0 whose trailing two bytes
\* differ from the CRC of byte[2 .. len-2] is rejected with the checksum
\* mismatch error (stated for the replies whose declared length fits the
\* destination, where nothing else can be wrong with the reply).
ChecksumGuard ==
    (/\ reply_parsed
     /\ header_and_status_ok(buffer)
     /\ (IF buffer[4] = 0 THEN 256 ELSE buffer[4]) <= cur.n
     /\ ~checksum_matches(buffer))
        => result.kind = "checksum"

\* C5: a reply with the valid header and a status byte s # 0 fails with the
\* device error carrying s, and the destination keeps its bytes.
StatusError ==
    (reply_parsed /\ buffer[1] = 2 /\ buffer[2] = 0 /\ buffer[3] # 0)
        => /\ result = [kind |-> "status", val |-> buffer[3]]
           /\ dest = fresh_destination

\* a reply with status 5, a payload and its right checksum has been refused
StatusErrorWitness ==
    /\ reply_parsed
    /\ cur.op = "read"
    /\ buffer = reply_frame(<<2, 0>>, 5, 2, <<1, 2>>, reply_crc(5, 2, <<1, 2>>))
    /\ result = [kind |-> "status", val |-> 5]
    /\ dest = <<0, 0>>

\* C6: a reply whose first byte is not 0x02 or whose second byte is not 0x00
\* fails with the invalid header error, and the destination keeps its bytes.
InvalidHeader ==
    (reply_parsed /\ (buffer[1] # 2 \/ buffer[2] # 0))
        => /\ result.kind = "header"
           /\ dest = fresh_destination

\* a reply that is well-formed but for its first byte has been refused
InvalidHeaderWitness ==
    /\ reply_parsed
    /\ buffer[1] = 3
    /\ SubSeq(buffer, 2, Len(buffer)) = Tail(good_reply(payload_of(buffer)))
    /\ result.kind = "header"
    /\ dest = fresh_destination

\* C7: a reply with valid header, status 0 and matching checksum that
\* declares more data than the destination holds makes the command return
\* a malformed reply error to its caller.
LengthExceedingDestination ==
    (/\ reply_parsed
     /\ header_and_status_ok(buffer)
     /\ checksum_matches(buffer)
     /\ (IF buffer[4] = 0 THEN 256 ELSE buffer[4]) > cur.n)
        => /\ result.kind = "short"
           /\ pc = "idle"

(***************************************************************************)
(* Properties of the command frames.                                       *)
(***************************************************************************)
\* a 16-bit value as its high and its low byte
hi_lo(v) == <<v \div 256, v % 256>>

\* C2: for an address A and a payload P of 1..255 bytes, send_write_command
\* transmits [0x7E, 0x00, 0x08, len(P), A_hi, A_lo, P, CRC_hi, CRC_lo], CRC
\* being the checksum of the bytes from the function type through the
\* payload, and then reads 7 bytes.
WriteFrameLayout ==
    (cur.op = "write" /\ Len(cur.data) \in 1..255)
        => /\ result.kind # "encode"
           /\ pc = "await" =>
                 wire = <<126, 0, 8, Len(cur.data)>> \o hi_lo(cur.address)
                            \o cur.data
                            \o hi_lo(calculate_crc(
                                   <<8, Len(cur.data)>> \o hi_lo(cur.address)
                                       \o cur.data))
           /\ Len(io) = 2 => want = 7

\* a write of 255 bytes to address 0x0102 has been sent and acknowledged
WriteFrameLayoutWitness ==
    /\ cur.op = "write"
    /\ cur.address = 258
    /\ Len(cur.data) = 255
    /\ io = <<"W", "R">>
    /\ Len(wire) = 263
    /\ SubSeq(wire, 1, 7) = <<126, 0, 8, 255, 1, 2, 1>>
    /\ want = 7
    /\ result.kind = "ok"

\* C3: for an address A and a destination of N bytes, 1 <= N <= 256,
\* send_read_command_fixed_reply transmits [0x7E, 0x00, 0x07, 0x01, A_hi,
\* A_lo, N mod 256, CRC_hi, CRC_lo], CRC being the checksum of the bytes from
\* the function type through the reply length byte, and then reads N + 6
\* bytes.
ReadFrameLayout ==
    (cur.op = "read" /\ cur.n \in 1..256)
        => /\ result.kind # "encode"
           /\ pc = "await" =>
                 wire = <<126, 0, 7, 1>> \o hi_lo(cur.address) \o <<cur.n % 256>>
                            \o hi_lo(calculate_crc(
                                   <<7, 1>> \o hi_lo(cur.address)
                                       \o <<cur.n % 256>>))
           /\ Len(io) = 2 => want = cur.n + 6

\* a read of 256 bytes has been requested with length byte 0 and answered
ReadFrameLayoutWitness ==
    /\ cur.op = "read"
    /\ cur.n = 256
    /\ io = <<"W", "R">>
    /\ SubSeq(wire, 1, 7) = <<126, 0, 7, 1, 1, 2, 0>>
    /\ want = 262
    /\ result = [kind |-> "ok", val |-> 256]

(***************************************************************************)
(* Properties of a session.                                                *)
(***************************************************************************)
\* the results that report a failure of a command
Failures == {"encode", "io", "header", "status", "checksum", "short"}

\* C8: a command writes at most one frame and, after the write, performs one
\* read of destination length + 6 bytes (7 for a write command); on a
\* failure it returns without another write or read, so a frame is awaited
\* exactly between its write and its read.
OneRoundTrip ==
    /\ io \in {<<>>, <<"W">>, <<"W", "R">>}
    /\ (pc = "await") <=> (io = <<"W">>)
    /\ (wire # <<>>) <=> (io # <<>>)
    /\ Len(io) = 2 => want = cur.n + 6
    /\ (cur.op \in {"write", "set_scan_timeout"} /\ Len(io) = 2) => want = 7
    /\ result.kind \in Failures => pc = "idle" /\ Len(io) \in {0, 2}

\* the second command of a session has written its frame, read a reply with
\* a damaged checksum and returned the error
OneRoundTripWitness ==
    /\ nCmds = 2
    /\ cur.op = "read"
    /\ io = <<"W", "R">>
    /\ want = cur.n + 6
    /\ Len(buffer) = want
    /\ result.kind = "checksum"
    /\ pc = "idle"

\* C9: the reply a command parses holds only bytes the device sent in
\* answer to that command; bytes left unread or arriving late from an
\* earlier call are never parsed as the reply of a later one.
CallsIndependent == reply_parsed => ~foreign

\* C10: when no byte arrives before the scan timeout elapses, or the first
\* byte read is 0x00, read_barcode returns no result, without error and
\* without entering the line loop.
ScanTimeoutNoError ==
    /\ (cur.op = "read_barcode" /\ pc # "codeid" /\ elapsed >= cur.timeout)
           => /\ pc = "idle"
              /\ result.kind = "noresult"
              /\ codeid = 0
    /\ (cur.op = "read_barcode" /\ pc # "codeid" /\ codeid = 0)
           => /\ pc = "idle"
              /\ result.kind = "noresult"
              /\ lines = <<>>
              /\ line = <<>>
              /\ barcode = NoBarcode
    /\ pc = "lines" => codeid # 0

\* read_barcode has polled a silent line up to a scan timeout of 250 ms set
\* by the command before it, and returned no result
ScanTimeoutNoErrorWitness ==
    /\ cur.op = "read_barcode"
    /\ cur.timeout = 250
    /\ scan_timeout = 250
    /\ elapsed = 300
    /\ pc = "idle"
    /\ codeid = 0
    /\ result.kind = "noresult"

(***************************************************************************)
(* Properties of the scan payload decoder.                                 *)
(***************************************************************************)
\* read_barcode has returned; buffer holds the bytes it read
scan_returned == cur.op = "read_barcode" /\ pc = "idle"

\* read_barcode has returned after the carriage return that ends a payload
payload_ended ==
    scan_returned /\ Len(buffer) >= 2 /\ buffer[Len(buffer)] = 13

\* the text whose characters have the code points of the bytes
chars_of(bytes) == [i \in 1..Len(bytes) |-> [codepoint |-> bytes[i]]]

\* the bytes of a payload between the code id and the carriage return,
\* without the line feed that may close them
only_line(payload) ==
    IF Len(payload) >= 3 /\ payload[Len(payload) - 1] = 10
    THEN SubSeq(payload, 2, Len(payload) - 2)
    ELSE SubSeq(payload, 2, Len(payload) - 1)

linear_variant(id) ==
    CASE id = 101 -> "Interleaved2of5"
      [] id = 98  -> "Code39"
      [] id = 100 -> "EAN13"
      [] id = 106 -> "Code128"

\* C11: a linear code id (0x65, 0x62, 0x64, 0x6A) followed by one non-empty
\* line, ended by 0x0A 0x0D or by 0x0D alone, makes read_barcode return the
\* matching scalar variant whose text is the line, byte for character.
LinearDecode ==
    (/\ payload_ended
     /\ buffer[1] \in {101, 98, 100, 106}
     /\ only_line(buffer) # <<>>
     /\ \A i \in 1..Len(only_line(buffer)) : only_line(buffer)[i] \notin {10, 13})
        => /\ result.kind = "barcode"
           /\ barcode = [variant |-> linear_variant(buffer[1]),
                         text |-> chars_of(only_line(buffer))]

\* 0x64 "123456789012" 0x0A 0x0D has been read and returned as EAN13
LinearDecodeWitness ==
    /\ payload_ended
    /\ buffer = <<100, 49, 50, 51, 52, 53, 54, 55, 56, 57, 48, 49, 50, 10, 13>>
    /\ barcode = [variant |-> "EAN13",
                  text |-> chars_of(<<49, 50, 51, 52, 53, 54, 55, 56, 57, 48,
                                      49, 50>>)]

\* the non-empty segments of bytes from index i on, seg being the segment
\* under way: a segment ends at 0x0A or 0x0D, the sequence at 0x0D
RECURSIVE segments_from(_, _, _)
segments_from(bytes, i, seg) ==
    IF i > Len(bytes)
    THEN IF seg = <<>> THEN <<>> ELSE <<seg>>
    ELSE IF bytes[i] \in {10, 13}
    THEN (IF seg = <<>> THEN <<>> ELSE <<seg>>)
             \o (IF bytes[i] = 13 THEN <<>>
                                  ELSE segments_from(bytes, i + 1, <<>>))
    ELSE segments_from(bytes, i + 1, Append(seg, bytes[i]))

\* the non-empty segments that follow the code id of a payload
segments_of(payload) == segments_from(payload, 2, <<>>)

\* C12: for the code ids 0x51 (QR) and 0x75 (DotMatrix) read_barcode returns
\* the non-empty segments delimited by 0x0A bytes and the closing 0x0D, in
\* arrival order; empty segments are dropped and do not end the loop, which
\* only a 0x0D after the code id ends.
MatrixDecode ==
    /\ (payload_ended /\ buffer[1] \in {81, 117} /\ segments_of(buffer) # <<>>)
           => /\ result.kind = "barcode"
              /\ barcode =
                    [variant |-> IF buffer[1] = 81 THEN "QR" ELSE "DotMatrix",
                     text |-> [i \in 1..Len(segments_of(buffer)) |->
                                  chars_of(segments_of(buffer)[i])]]
    /\ (scan_returned /\ result.kind \in {"barcode", "unsupported_type"})
           => /\ buffer[Len(buffer)] = 13
              /\ \A i \in 2..(Len(buffer) - 1) : buffer[i] # 13
    /\ (pc = "lines") => \A i \in 2..Len(buffer) : buffer[i] # 13

\* the QR payload "A\n\nB\r" has been returned as the lines "A" and "B"
MatrixDecodeWitness ==
    /\ payload_ended
    /\ buffer = <<81, 65, 10, 10, 66, 13>>
    /\ result.kind = "barcode"
    /\ barcode = [variant |-> "QR",
                  text |-> <<chars_of(<<65>>), chars_of(<<66>>)>>]

\* the code ids read_barcode knows, and 0x00
known_ids == {0, 101, 98, 100, 106, 81, 117}

\* C13: for every code id other than 0x00 and the six recognized codes,
\* read_barcode returns the unsupported barcode type error, never no result
\* and never a barcode, whatever lines follow the code id, none included.
UnsupportedCode ==
    (payload_ended /\ buffer[1] \notin known_ids)
        => result.kind = "unsupported_type"

\* C13, amended: for every such code id, a payload read through its 0x0D
\* with at least one non-empty line returns the unsupported barcode type
\* error and no barcode.
UnsupportedCodeWithLines ==
    (payload_ended /\ buffer[1] \notin known_ids /\ segments_of(buffer) # <<>>)
        => /\ result.kind = "unsupported_type"
           /\ barcode = NoBarcode

\* the payload 0x99 "12" 0x0D has been refused
UnsupportedCodeWitness ==
    /\ payload_ended
    /\ buffer = <<153, 49, 50, 13>>
    /\ lines = <<(<<49, 50>>)>>
    /\ result.kind = "unsupported_type"

\* C14: whenever the line loop ends at 0x0D with no non-empty line
\* collected, read_barcode returns no result, for any code id.
EmptyPayload ==
    (payload_ended /\ segments_of(buffer) = <<>>)
        => /\ result.kind = "noresult"
           /\ lines = <<>>
           /\ barcode = NoBarcode

\* an unknown code id followed by an empty line and 0x0D gave no result
EmptyPayloadWitness ==
    /\ payload_ended
    /\ buffer = <<153, 10, 13>>
    /\ result.kind = "noresult"

\* C15: once a non-zero code id has been received, a poll interval passing
\* with no byte available never makes read_barcode fail or return: it
\* returns only after the 0x0D that ends the payload.
LineLoopNoTimeout ==
    (scan_returned /\ codeid # 0)
        => /\ buffer[Len(buffer)] = 13
           /\ result.kind # "io"

(***************************************************************************)
(* Properties of the configuration commands.                               *)
(***************************************************************************)
\* C16: set_scan_timeout accepts 1 ms to 25500 ms and sends floor(ms / 100)
\* as one byte in a write command to address 0x0006 (25500 ms as 255);
\* 25501 ms fails as out of range and 0 ms as unsupported, and neither
\* writes a frame.
ScanTimeoutRange ==
    cur.op = "set_scan_timeout"
        => /\ cur.timeout = 0
                 => result.kind = "unsupported" /\ io = <<>> /\ wire = <<>>
           /\ cur.timeout > 25500
                 => result.kind = "range" /\ io = <<>> /\ wire = <<>>
           /\ cur.timeout \in 1..25500
                 => /\ result.kind \notin {"unsupported", "range", "encode"}
                    /\ pc = "await" =>
                          wire = <<126, 0, 8, 1, 0, 6, cur.timeout \div 100>>
                                   \o hi_lo(calculate_crc(
                                          <<8, 1, 0, 6, cur.timeout \div 100>>))
           /\ (cur.timeout = 25500 /\ pc = "await") => wire[7] = 255

\* 25500 ms has been sent as byte 255, acknowledged and taken over
ScanTimeoutRangeWitness ==
    /\ cur.op = "set_scan_timeout"
    /\ cur.timeout = 25500
    /\ io = <<"W", "R">>
    /\ wire[7] = 255
    /\ result.kind = "ok"
    /\ scan_timeout = 25500

\* C17: the session's scan_timeout changes only when set_scan_timeout's
\* write command was acknowledged by a reply that passed validation, and
\* then to the value asked for; a failed range check, frame write or reply
\* validation, and every other command, leave it as it was.
AtomicDriverState ==
    [][scan_timeout' # scan_timeout
          => /\ cur.op = "set_scan_timeout"
             /\ cur' = cur
             /\ pc = "await"
             /\ io' = <<"W", "R">>
             /\ result'.kind = "ok"
             /\ SubSeq(buffer', 1, 3) = <<2, 0, 0>>
             /\ scan_timeout' = cur.timeout]_vars

\* a scan timeout of 250 ms was set, and the failing read command after it
\* has left it in place
AtomicDriverStateWitness ==
    /\ nCmds = 2
    /\ scan_timeout = 250
    /\ cur.op = "read"
    /\ result.kind = "checksum"

\* the frame that writes the decoding options 0x05 to address 0x0060
options_frame ==
    <<126, 0, 8, 1, 0, 96, 5>> \o hi_lo(calculate_crc(<<8, 1, 0, 96, 5>>))

\* new has not handed out a session (yet)
no_session == pc \in {"new", "new_write", "closed"} \/ (cur.op = "new" /\ pc = "await")

\* C18: new discards pending input, sets the scan timeout to 5 s and writes
\* the decoding options byte 0x05 to address 0x0060 as the first frame; a
\* session is returned only if a reply to that write passed validation, so
\* no other command is sent before.
SessionCreation ==
    /\ [](cur.op = "none" => (no_session /\ wire = <<>> /\ io = <<>>))
    /\ []((cur.op = "new" /\ io # <<>>)
             => (wire = options_frame /\ scan_timeout = 5000))
    /\ []((cur.op = "new" /\ ~no_session)
             => /\ pc = "idle"
                /\ io = <<"W", "R">>
                /\ result.kind = "ok"
                /\ SubSeq(buffer, 1, 3) = <<2, 0, 0>>)
    /\ [][(pc = "new" /\ pc' = "new_write")
             => (rx' = <<>> /\ scan_timeout' = 5000)]_vars
    /\ [][(cur'.op \notin {"none", "new"} /\ cur.op \in {"none", "new"})
             => /\ cur.op = "new"
                /\ pc = "idle"
                /\ result.kind = "ok"
                /\ wire = options_frame]_vars

\* new has returned a session: the input pending at the call is gone, the
\* options frame was written and acknowledged, and a command has followed
SessionCreationWitness ==
    /\ nCmds = 1
    /\ cur.op = "read"
    /\ pc = "await"
    /\ scan_timeout = 5000
    /\ rx = <<>>

(***************************************************************************)
(* Properties of the checksum engine.                                      *)
(***************************************************************************)
\* the exclusive or of two bits
bit_xor(p, q) == (p + q) % 2

\* bit k of a 16-bit register
reg_bit(reg, k) == (reg \div (2 ^ k)) % 2

\* CRC-16, polynomial 0x1021 = x^16 + x^12 + x^5 + 1, one message bit d
\* entering an unreflected register: the register moves left by one and the
\* bit falling out, xored with d, is fed back at the bits 12, 5 and 0
crc_bit_step(reg, d) ==
    LET fb == bit_xor(reg_bit(reg, 15), d)
        moved == (reg * 2) % 65536
    IN  moved - (reg_bit(moved, 12) * 4096) - (reg_bit(moved, 5) * 32)
              + (bit_xor(reg_bit(moved, 12), fb) * 4096)
              + (bit_xor(reg_bit(moved, 5), fb) * 32)
              + fb

\* the register after the eight bits of byte, the most significant first
crc_byte_reference(reg, byte) ==
    LET r7 == crc_bit_step(reg, reg_bit(byte, 7))
        r6 == crc_bit_step(r7, reg_bit(byte, 6))
        r5 == crc_bit_step(r6, reg_bit(byte, 5))
        r4 == crc_bit_step(r5, reg_bit(byte, 4))
        r3 == crc_bit_step(r4, reg_bit(byte, 3))
        r2 == crc_bit_step(r3, reg_bit(byte, 2))
        r1 == crc_bit_step(r2, reg_bit(byte, 1))
    IN  crc_bit_step(r1, reg_bit(byte, 0))

RECURSIVE crc_reference(_, _, _)
\* the register after the bytes of message from byte i on, in order
crc_reference(message, i, reg) ==
    IF i > Len(message) THEN reg
    ELSE crc_reference(message, i + 1,
                       CHOOSE r \in {crc_byte_reference(r0, message[i]) :
                                        r0 \in {reg}} : TRUE)

\* a call of the checksum engine has returned
crc_returned(op) == cur.op = op /\ pc = "idle"

\* C19: verify_crc(data, 0xABCD) succeeds for every data; for every other
\* expected value it succeeds exactly when expected is calculate_crc(data).
SentinelBypass ==
    crc_returned("verify_crc")
        => ((result.kind = "ok")
               <=> (cur.expected = 43981
                       \/ cur.expected = crc_reference(cur.data, 1, 0)))

\* verify_crc has accepted 0xABCD for data whose checksum is 0x3331
SentinelBypassWitness ==
    /\ crc_returned("verify_crc")
    /\ cur.data = <<0, 1, 0>>
    /\ cur.expected = 43981
    /\ result.kind = "ok"

\* C20: calculate_crc is CRC-16 with polynomial 0x1021, initial register 0,
\* no reflection, no final xor, most significant bit first; it returns
\* 0x3331 for [00,01,00], 0xEE8A for [00,07,01,00,0A,01], 0xE4AC for
\* [00,00,01,3E] and 0x4CCF for [00,08,01,00,0A,3E].
ChecksumAlgorithm ==
    crc_returned("calculate_crc")
        => /\ result = [kind |-> "ok", val |-> crc_reference(cur.data, 1, 0)]
           /\ cur.data = <<0, 1, 0>> => result.val = 13105
           /\ cur.data = <<0, 7, 1, 0, 10, 1>> => result.val = 61066
           /\ cur.data = <<0, 0, 1, 62>> => result.val = 58540
           /\ cur.data = <<0, 8, 1, 0, 10, 62>> => result.val = 19663

\* calculate_crc has returned 0x4CCF for [00,08,01,00,0A,3E]
ChecksumAlgorithmWitness ==
    /\ crc_returned("calculate_crc")
    /\ cur.data = <<0, 8, 1, 0, 10, 62>>
    /\ result.val = 19663

(***************************************************************************)
(* Properties of replies that do not arrive in full.                       *)
(***************************************************************************)
\* C21: when the device delivers fewer than 6 bytes in reply to a command,
\* the command fails with the short reply error.
ShortReply ==
    (/\ pc = "idle"
     /\ io = <<"W", "R">>
     /\ Len(buffer) \in 1..(ENVELOPE_LEN - 1))
        => result.kind = "short"

(***************************************************************************)
(* Properties of the deadline of read_barcode.                             *)
(***************************************************************************)
\* the polls of the code id read that have timed out
timed_out_polls == elapsed \div POLL_MS

\* ceil(timeout / 100 ms)
polls_to_deadline(timeout) == (timeout + (POLL_MS - 1)) \div POLL_MS

\* read_barcode has returned from the code id read without having read a byte
silent_return == cur.op = "read_barcode" /\ pc = "idle" /\ buffer = <<>>

\* C22: when no byte arrives, the deadline bounded read of read_barcode
\* returns no result no earlier than the scan timeout and no later than the
\* scan timeout plus one poll interval of 100 ms, after at most
\* ceil(timeout / 100 ms) + 1 timed-out polls.
DeadlineOvershoot ==
    /\ silent_return
          => /\ result.kind = "noresult"
             /\ elapsed >= cur.timeout
             /\ elapsed <= cur.timeout + 100
             /\ timed_out_polls <= polls_to_deadline(cur.timeout) + 1
    /\ (cur.op = "read_barcode" /\ pc = "codeid") => elapsed < cur.timeout

\* read_barcode has given up a scan timeout of 250 ms after three silent
\* polls
DeadlineOvershootWitness ==
    /\ silent_return
    /\ cur.timeout = 250
    /\ elapsed = 300
    /\ timed_out_polls = 3
    /\ result.kind = "noresult"

(***************************************************************************)
(* Properties of the order of the reply checks.                            *)
(***************************************************************************)
\* the length a reply declares is more than the destination holds
oversized(reply) == (IF reply[4] = 0 THEN 256 ELSE reply[4]) > cur.n

\* C23: the reply checks are applied in the order header, status, checksum,
\* length, and the first that fails decides the error: an invalid header
\* yields the invalid header error whatever the status; a valid header with
\* a non-zero status yields the status error whatever the checksum; a wrong
\* checksum yields the checksum mismatch whatever the length byte.
ValidationPrecedence ==
    reply_parsed
        => /\ (buffer[1] # 2 \/ buffer[2] # 0) => result.kind = "header"
           /\ (buffer[1] = 2 /\ buffer[2] = 0 /\ buffer[3] # 0)
                 => result = [kind |-> "status", val |-> buffer[3]]
           /\ (header_and_status_ok(buffer) /\ ~checksum_matches(buffer))
                 => result.kind = "checksum"

(***************************************************************************)
(* Properties of the payload copy.                                         *)
(***************************************************************************)
\* C24: a valid reply of N + 6 bytes that declares a length L, 1 <= L < N,
\* is accepted: the call returns L, the first L bytes of the destination
\* are the first L payload bytes of the reply and the other N - L bytes of
\* the destination are as the caller passed them; every successful read
\* command returns a length within 1..256 that is at most N.
PartialPayload ==
    /\ (/\ reply_parsed
        /\ header_and_status_ok(buffer)
        /\ checksum_matches(buffer)
        /\ buffer[4] >= 1
        /\ buffer[4] < cur.n)
           => /\ result = [kind |-> "ok", val |-> buffer[4]]
              /\ Len(dest) = cur.n
              /\ \A i \in 1..cur.n :
                    dest[i] = IF i <= buffer[4] THEN buffer[4 + i]
                                                ELSE fresh_destination[i]
    /\ (reply_parsed /\ cur.op = "read" /\ result.kind = "ok")
           => /\ result.val \in 1..256
              /\ result.val <= cur.n

\* a reply of 256 payload bytes declaring 255 of them has been accepted:
\* the last byte of the destination is as it was
PartialPayloadWitness ==
    /\ reply_parsed
    /\ cur.op = "read"
    /\ cur.n = 256
    /\ buffer[4] = 255
    /\ result = [kind |-> "ok", val |-> 255]
    /\ SubSeq(dest, 1, 255) = SubSeq(buffer, 5, 259)
    /\ buffer[260] # 0
    /\ dest[256] = 0

(***************************************************************************)
(* Properties of commands whose frame cannot be built.                     *)
(***************************************************************************)
\* the call asks for a frame that has no encoding: a write payload of more
\* than 255 bytes, or a reply of more than 256 bytes
unencodable ==
    \/ cur.op = "write" /\ Len(cur.data) > 255
    \/ cur.op = "read" /\ cur.n > 256

\* C25: when the frame cannot be built (a write payload longer than 255
\* bytes, a requested reply length above 256) the command returns an error
\* and no byte is written to or read from the transport.
NoTransmissionOnEncodingFailure ==
    /\ [](unencodable
            => /\ pc = "idle"
               /\ result.kind = "encode"
               /\ wire = <<>>
               /\ io = <<>>
               /\ want = 0
               /\ buffer = <<>>)
    /\ [](result.kind = "encode" => unencodable)
    /\ [][(nCmds' # nCmds /\ result'.kind = "encode")
             => (rx' = rx /\ devOut' = devOut /\ Len(owed') = Len(owed))]_vars

\* the second command of a session, a write of 256 bytes, has failed with
\* nothing sent, and the bytes that were waiting on the line still wait
NoTransmissionOnEncodingFailureWitness ==
    /\ nCmds = 2
    /\ cur.op = "write"
    /\ Len(cur.data) = 256
    /\ result.kind = "encode"
    /\ pc = "idle"
    /\ wire = <<>>
    /\ io = <<>>
    /\ rx # <<>>

(***************************************************************************)
(* Further properties of the scan payload decoder.                         *)
(***************************************************************************)
\* C26: a linear code id followed by two or more non-empty lines before the
\* 0x0D makes read_barcode return the scalar variant with the first
\* non-empty line only; the later lines are read and dropped, without error.
LinearSeveralLines ==
    (/\ payload_ended
     /\ buffer[1] \in {101, 98, 100, 106}
     /\ Len(segments_of(buffer)) >= 2)
        => /\ result = [kind |-> "barcode", val |-> Len(segments_of(buffer))]
           /\ lines = segments_of(buffer)
           /\ barcode = [variant |-> linear_variant(buffer[1]),
                         text |-> chars_of(segments_of(buffer)[1])]

\* the Code128 payload "A\n\nB\r" has been read to its end and returned as
\* the text "A"
LinearSeveralLinesWitness ==
    /\ payload_ended
    /\ buffer = <<106, 65, 10, 10, 66, 13>>
    /\ lines = <<<<65>>, <<66>>>>
    /\ result.kind = "barcode"
    /\ barcode = [variant |-> "Code128", text |-> chars_of(<<65>>)]

\* read_barcode has returned from the line loop: a barcode, no result for
\* zero lines, or the unsupported type error
line_loop_return ==
    /\ scan_returned
    /\ \/ result.kind \in {"barcode", "unsupported_type"}
       \/ result.kind = "noresult" /\ Len(buffer) >= 2

\* C27: when read_barcode returns after the line loop it has consumed from
\* the transport the code id and the bytes up to and including the first
\* 0x0D, and no byte after it; when the first byte is 0x00 it has consumed
\* that byte alone.  buffer holds what the call consumed: each step of the
\* call takes the byte at the head of the line or none, and the line is as
\* it was when the call begins.
ExactConsumption ==
    /\ [](line_loop_return
            => /\ buffer[1] # 0
               /\ buffer[Len(buffer)] = 13
               /\ \A i \in 2..(Len(buffer) - 1) : buffer[i] # 13)
    /\ []((scan_returned /\ buffer # <<>> /\ buffer[1] = 0)
            => (buffer = <<0>> /\ result.kind = "noresult"))
    /\ [][(pc \in {"codeid", "lines"} /\ buffer' # buffer)
             => /\ rx # <<>>
                /\ buffer' = Append(buffer, Head(rx))
                /\ rx' = Tail(rx)]_vars
    /\ [][(pc \in {"codeid", "lines"} /\ buffer' = buffer)
             => (Len(rx') >= Len(rx) /\ SubSeq(rx', 1, Len(rx)) = rx)]_vars
    /\ [][(pc = "idle" /\ pc' = "codeid")
             => (rx' = rx /\ buffer' = <<>>)]_vars
    /\ [][(scan_returned /\ pc' = "idle")
             => (buffer' = buffer
                    /\ Len(rx') >= Len(rx) /\ SubSeq(rx', 1, Len(rx)) = rx)]_vars

\* read_barcode has returned the EAN13 code "1"; the QR payload the device
\* sent right behind it is still on the line
ExactConsumptionWitness ==
    /\ line_loop_return
    /\ buffer = <<100, 49, 10, 13>>
    /\ result.kind = "barcode"
    /\ rx = <<81, 65, 13>>

\* read_barcode is under way
scan_under_way == cur.op = "read_barcode" /\ pc \in {"codeid", "lines"}

frame_of_byte(address, byte) ==
    <<126, 0, 8, 1>> \o hi_lo(address) \o <<byte>>
        \o hi_lo(calculate_crc(<<8, 1>> \o hi_lo(address) \o <<byte>>))

\* the frames of an enabling allow call in the claimed order: minimum
\* length if given, maximum length if given, then the enable flag
enabling_frames(a, flag_byte) ==
    (IF a.min_length # <<>>
     THEN <<frame_of_byte(a.sym.min, a.min_length[1])>> ELSE <<>>)
    \o (IF a.max_length # <<>>
        THEN <<frame_of_byte(a.sym.max, a.max_length[1])>> ELSE <<>>)
    \o <<frame_of_byte(a.sym.flag, flag_byte)>>

\* this step writes a frame of an allow call
allow_frame_written == cur'.op = "allow" /\ pc # "await" /\ pc' = "await"

\* the frame written by this step is frame number cur'.step of frames, and
\* any frame but the first follows the acknowledged frame before it of the
\* same call
in_order(frames) ==
    /\ cur'.step <= Len(frames)
    /\ wire' = frames[cur'.step]
    /\ cur'.step > 1
          => /\ cur.op = "allow"
             /\ cur.args = cur'.args
             /\ cur.step = cur'.step - 1
             /\ io = <<"W", "R">>
             /\ wire = frames[cur.step]
             /\ result.kind = "ok"
             /\ SubSeq(buffer, 1, 3) = <<2, 0, 0>>

\* C29: an allow operation with length limits and enable = true writes the
\* frames minimum length (if given), maximum length (if given), enable flag
\* 0x01, each only after the one before was acknowledged, and none after a
\* write that failed; with enable = false it writes the one frame with the
\* flag 0x00.
SymbologyOrder ==
    [][allow_frame_written
          => IF cur'.args.enable
             THEN in_order(enabling_frames(cur'.args, 1))
             ELSE (cur'.step = 1
                      /\ wire' = frame_of_byte(cur'.args.sym.flag, 0))]_vars

\* C29, amended: the same with the enable flag being 0x01, or 0x03 for
\* allow_codebar with with_start_stop_character.
SymbologyOrderWithMode ==
    [][allow_frame_written
          => IF cur'.args.enable
             THEN in_order(enabling_frames(
                               cur'.args,
                               IF cur'.args.start_stop THEN 3 ELSE 1))
             ELSE (cur'.step = 1
                      /\ wire' = frame_of_byte(cur'.args.sym.flag, 0))]_vars

\* allow_codebar(true, true, Some(4), Some(20)) has written its three
\* frames, the last with the flag 0x03, and that one has been acknowledged
SymbologyOrderWitness ==
    /\ cur.op = "allow"
    /\ cur.args = [sym |-> CodeBar, enable |-> TRUE, start_stop |-> TRUE,
                   min_length |-> <<4>>, max_length |-> <<20>>]
    /\ cur.step = 3
    /\ io = <<"W", "R">>
    /\ wire = frame_of_byte(60, 3)
    /\ result.kind = "ok"
    /\ pc = "idle"

(***************************************************************************)
(* Properties of the scan timeout of the session and of the device.        *)
(***************************************************************************)
\* set_scan_timeout has returned and its frame had been written: the byte of
\* that frame is the timeout the device last received at address 0x0006
timeout_frame_sent ==
    /\ cur.op = "set_scan_timeout"
    /\ pc = "idle"
    /\ Len(wire) = 9
    /\ SubSeq(wire, 1, 6) = <<126, 0, 8, 1, 0, 6>>

\* C30: after any sequence of set_scan_timeout calls, whatever their
\* outcomes, the scan_timeout of the session, in ms, is at least 100 times
\* the timeout byte the device last received at address 0x0006.
HostDeadlineCoversScanWindow ==
    timeout_frame_sent => scan_timeout >= 100 * wire[7]

\* the frame of a set_scan_timeout call is on the line: its payload byte is
\* the timeout byte transmitted to address 0x0006
timeout_frame_written ==
    /\ cur.op = "set_scan_timeout"
    /\ io # <<>>
    /\ Len(wire) = 9
    /\ SubSeq(wire, 1, 6) = <<126, 0, 8, 1, 0, 6>>

\* C31: for every duration set_scan_timeout accepts, the timeout byte it
\* transmits to address 0x0006 is within 1..255; it never transmits 0x00,
\* the value of the indefinite wait.
NoIndefiniteWaitByte ==
    timeout_frame_written => wire[7] \in 1..255

\* every byte of data is 0x00
all_zero(data) == \A i \in 1..Len(data) : data[i] = 0

\* C32: leading zero bytes do not change the checksum:
\* calculate_crc([0x00] ++ b) = calculate_crc(b) for every b, and the
\* checksum of an all-zero sequence is 0; so the checksum taken from the
\* function type on is the one taken from the reserved 0x00 before it on, as
\* in the test vectors (0x3331 for [01,00] as for [00,01,00]).
LeadingZeros ==
    crc_returned("calculate_crc")
        => /\ result.kind = "ok"
           /\ result.val = calculate_crc(<<0>> \o cur.data)
           /\ result.val = calculate_crc(<<0, 0, 0>> \o cur.data)
           /\ all_zero(cur.data) => result.val = 0
           /\ cur.data \in {<<1, 0>>, <<0, 1, 0>>} => result.val = 13105

\* calculate_crc has returned 0x3331 for [01,00], the checksum the test
\* vector gives for [00,01,00]
LeadingZerosWitness ==
    /\ crc_returned("calculate_crc")
    /\ cur.data = <<1, 0>>
    /\ result.val = 13105
    /\ calculate_crc(<<0, 1, 0>>) = 13105

====
